---- MODULE Spec2Model ----
(***************************************************************************)
(* A model of fakeredis/_stream.py: the stream XStream (a list of entries  *)
(* kept in key order, its deletion high-water mark and its counter of      *)
(* added entries) and the consumer groups StreamGroup layered on it.       *)
(*                                                                         *)
(* Indices are Python's: the first element of a list has index 0.  A key   *)
(* string such as b'5-1', b'5', b'5-*', b'*' or b'$' is the record of what *)
(* str.split('-') and int() make of it: its shape (kind) and its numbers.  *)
(* Python's None is the empty tuple <<>> and an int n that may be None is  *)
(* the tuple <<n>>.                                                        *)
(***************************************************************************)
EXTENDS Integers, Sequences, FiniteSets, TLC

\* Bounds of the model.
MaxTs == 1          \* timestamps given by callers and by the clock: 0..MaxTs
MaxAdded == 3       \* XStream.add is not called once entries_added reaches it
MaxGroupAdded == 2  \* the same, for a stream with groups
MaxRead == 2        \* StreamGroup.group_read is not called once entries_read reaches it
MaxPending == 2     \* nor, where set_id can rewind the group, once the consumer's pending count reaches it

VARIABLES
    values,           \* XStream._values
    max_deleted_id,   \* XStream._max_deleted_id
    entries_added,    \* XStream._entries_added
    groups,           \* XStream._groups: group name -> StreamGroup
    ret,              \* the last call: its name and what it returned
    hist              \* per group, what its callers have seen of it so far

vars == <<values, max_deleted_id, entries_added, groups, ret, hist>>

\* A dict with no keys.
EmptyDict == [k \in {} |-> 0]

None == <<>>
Some(n) == <<n>>
\* Python's `x or 0` for an int that may be None.
OrZero(x) == IF x = None THEN 0 ELSE x[1]

Min(a, b) == IF a <= b THEN a ELSE b
Max(a, b) == IF a >= b THEN a ELSE b

(***************************************************************************)
(* StreamEntryKey and StreamEntry                                          *)
(***************************************************************************)
StreamEntryKey(ts, seq) == [ts |-> ts, seq |-> seq]

\* Tuple comparison of two keys: timestamp first, then sequence.
KeyLess(a, b) == a.ts < b.ts \/ (a.ts = b.ts /\ a.seq < b.seq)
KeyGreater(a, b) == KeyLess(b, a)
\* Python's max(a, b): b only when b is greater than a.
KeyMax(a, b) == IF KeyGreater(b, a) THEN b ELSE a

KeyStr(kind, ts, seq) == [kind |-> kind, ts |-> ts, seq |-> seq]

\* StreamEntryKey.encode: f'{ts}-{seq}'.
encode(key) == KeyStr("ts-seq", key.ts, key.seq)

\* StreamEntryKey.parse_str: 'ts' gets sequence 0, 'ts-seq' both numbers.
parse_str(s) ==
    IF s.kind = "ts" THEN StreamEntryKey(s.ts, 0) ELSE StreamEntryKey(s.ts, s.seq)

StreamEntry(key, fields) == [key |-> key, fields |-> fields]

\* StreamEntry.format_record
format_record(e) == <<encode(e.key), e.fields>>

(***************************************************************************)
(* Python lists                                                            *)
(***************************************************************************)
\* lst[i] for 0 <= i < len(lst)
At(lst, i) == lst[i + 1]

\* lst[-1]
LastOf(lst) == lst[Len(lst)]

\* The index a slice bound i stands for: negative bounds count from the end
\* and every bound is clipped to 0..len.
SliceIndex(lst, i) ==
    IF i < 0 THEN Max(Len(lst) + i, 0) ELSE Min(i, Len(lst))

\* lst[i:j]
Slice(lst, i, j) == SubSeq(lst, SliceIndex(lst, i) + 1, SliceIndex(lst, j))

\* lst[i:]
SliceFrom(lst, i) == SubSeq(lst, SliceIndex(lst, i) + 1, Len(lst))

\* del lst[i] for 0 <= i < len(lst)
DelAt(lst, i) == SubSeq(lst, 1, i) \o SubSeq(lst, i + 2, Len(lst))

RECURSIVE Reversed(_)
Reversed(lst) ==
    IF lst = <<>> THEN <<>> ELSE Reversed(Tail(lst)) \o <<Head(lst)>>

\* bisect.bisect_left(a, x, lo, hi) over the keys of a list of entries.
RECURSIVE bisect_left(_, _, _, _)
bisect_left(a, x, lo, hi) ==
    IF lo < hi
    THEN LET mid == (lo + hi) \div 2
         IN  IF KeyLess(At(a, mid).key, x)
             THEN bisect_left(a, x, mid + 1, hi)
             ELSE bisect_left(a, x, lo, mid)
    ELSE lo

\* bisect.bisect_right(a, x, lo, hi) over the keys of a list of entries.
RECURSIVE bisect_right(_, _, _, _)
bisect_right(a, x, lo, hi) ==
    IF lo < hi
    THEN LET mid == (lo + hi) \div 2
         IN  IF KeyLess(x, At(a, mid).key)
             THEN bisect_right(a, x, lo, mid)
             ELSE bisect_right(a, x, mid + 1, hi)
    ELSE lo

(***************************************************************************)
(* XStream: lookups                                                        *)
(***************************************************************************)
\* XStream.find_index: <<index, found>>
find_index(vals, entry_key, from_left) ==
    IF Len(vals) = 0 THEN <<0, FALSE>>
    ELSE LET ind == IF from_left
                    THEN bisect_left(vals, entry_key, 0, Len(vals))
                    ELSE bisect_right(vals, entry_key, 0, Len(vals))
         IN  <<ind, ind < Len(vals) /\ At(vals, ind).key = entry_key>>

\* XStream.find_index_key_as_str
find_index_key_as_str(vals, entry_key_str) ==
    IF entry_key_str.kind = "$" THEN <<Max(Len(vals) - 1, 0), TRUE>>
    ELSE find_index(vals, parse_str(entry_key_str), TRUE)

\* add_ts_seq that gives 'ts-*' the sequence 0 whatever the last entry is.
add_ts_seq_zero(vals, entry_key, now) ==
    IF entry_key.kind = "*"
    THEN IF Len(vals) > 0 /\ LastOf(vals).key.ts = now
         THEN Some(StreamEntryKey(now, LastOf(vals).key.seq + 1))
         ELSE Some(StreamEntryKey(now, 0))
    ELSE IF entry_key.kind \in {"ts-*", "ts-seq-*"}
    THEN IF entry_key.kind # "ts-*" THEN None
         ELSE Some(StreamEntryKey(entry_key.ts, 0))
    ELSE Some(parse_str(entry_key))

(***************************************************************************)
(* XStream: the pure parts of add, delete, trim, irange and stream_read    *)
(***************************************************************************)
\* XStream.add, the key of the new entry: Some(key), or None where the code
\* returns None before it has a key ('a-b-*': ends in '*', splits in three).
add_ts_seq(vals, entry_key, now) ==
    IF entry_key.kind = "*"
    THEN LET ts == now
             seq == 0
         IN  IF /\ Len(vals) > 0
                /\ LastOf(vals).key.ts = ts
                /\ LastOf(vals).key.seq >= seq
             THEN Some(StreamEntryKey(ts, LastOf(vals).key.seq + 1))
             ELSE Some(StreamEntryKey(ts, seq))
    ELSE IF entry_key.kind \in {"ts-*", "ts-seq-*"}
    THEN IF entry_key.kind # "ts-*"
         THEN None
         ELSE LET ts == entry_key.ts
              IN  IF Len(vals) > 0 /\ ts = LastOf(vals).key.ts
                  THEN Some(StreamEntryKey(ts, LastOf(vals).key.seq + 1))
                  ELSE Some(StreamEntryKey(ts, 0))
    ELSE Some(parse_str(entry_key))

\* XStream.add, line 278: the stream refuses the key.
add_refuses(vals, ts_seq) ==
    Len(vals) > 0 /\ KeyGreater(LastOf(vals).key, ts_seq)

\* XStream.delete, the loop over lst: the stream, its high-water mark and
\* the count after the remaining items.
RECURSIVE delete_loop(_, _, _, _)
delete_loop(vals, max_deleted, lst, res) ==
    IF lst = <<>>
    THEN [values |-> vals, max_deleted_id |-> max_deleted, res |-> res]
    ELSE LET f == find_index_key_as_str(vals, Head(lst))
             ind == f[1]
             found == f[2]
         IN  IF found
             THEN delete_loop(DelAt(vals, ind),
                              KeyMax(At(vals, ind).key, max_deleted),
                              Tail(lst), res + 1)
             ELSE delete_loop(vals, max_deleted, Tail(lst), res)

\* XStream.trim raises: ValueError when both max_length and start_entry_key
\* are given, TypeError from max(None, 0) when neither is.
trim_raises(max_length, start_entry_key) ==
    \/ max_length # None /\ start_entry_key # None
    \/ max_length = None /\ start_entry_key = None

\* XStream.trim, start_ind.
trim_start_ind(vals, max_length, start_entry_key) ==
    IF max_length # None
    THEN Len(vals) - max_length[1]
    ELSE find_index_key_as_str(vals, start_entry_key[1])[1]

\* trim_res without the clamp of a negative start_ind to 0.
trim_res_unclamped(vals, max_length, start_entry_key, limit) ==
    LET start_ind == IF max_length # None
                     THEN Len(vals) - max_length[1]
                     ELSE find_index_key_as_str(vals, start_entry_key[1])[1]
    IN  IF limit # None THEN Min(start_ind, limit[1]) ELSE start_ind

\* XStream.trim, res: the index the stream is cut at, and the value returned.
trim_res(vals, max_length, start_entry_key, limit) ==
    LET start_ind == trim_start_ind(vals, max_length, start_entry_key)
    IN  IF limit # None THEN Min(start_ind, limit[1]) ELSE Max(start_ind, 0)

\* StreamRangeTest
BeforeAny == [kind |-> "BeforeAny", key |-> StreamEntryKey(0, 0)]
AfterAny == [kind |-> "AfterAny", key |-> StreamEntryKey(0, 0)]
StreamRangeTest(value, exclusive) == [value |-> value, exclusive |-> exclusive]
RealKey(key) == [kind |-> "key", key |-> key]

\* _find_index that takes AfterAny for the index of the last entry.
irange_find_index_last(vals, elem, from_left) ==
    IF elem.value.kind = "BeforeAny" THEN 0
    ELSE IF elem.value.kind = "AfterAny" THEN Max(Len(vals) - 1, 0)
    ELSE LET f == find_index(vals, elem.value.key, from_left)
         IN  IF f[2] /\ elem.exclusive THEN f[1] + 1 ELSE f[1]

\* XStream.irange._find_index
irange_find_index(vals, elem, from_left) ==
    IF elem.value.kind = "BeforeAny" THEN 0
    ELSE IF elem.value.kind = "AfterAny" THEN Len(vals)
    ELSE LET f == find_index(vals, elem.value.key, from_left)
         IN  IF f[2] /\ elem.exclusive THEN f[1] + 1 ELSE f[1]

\* map(f, range(a, b)) over the entries of the stream, as a list
RECURSIVE MapRange(_, _, _)
MapRange(vals, a, b) ==
    IF a >= b THEN <<>>
    ELSE <<format_record(At(vals, a))>> \o MapRange(vals, a + 1, b)

\* XStream.irange
irange(vals, start, stop, reverse) ==
    LET start_ind == irange_find_index(vals, start, TRUE)
        stop_ind == irange_find_index(vals, stop, FALSE)
        matches == MapRange(vals, start_ind, stop_ind)
    IN  IF reverse THEN Reversed(matches) ELSE matches

\* XStream.stream_read
stream_read(vals, start_key, count) ==
    LET f == find_index(vals, start_key, TRUE)
        start_ind == IF f[2] THEN f[1] + 1 ELSE f[1]
    IN  IF start_ind >= Len(vals) THEN <<>>
        ELSE LET end_ind == IF count = None \/ start_ind + count[1] >= Len(vals)
                            THEN Len(vals)
                            ELSE start_ind + count[1]
             IN  Slice(vals, start_ind, end_ind)

\* [x.format_record() for x in items]
RECURSIVE FormatAll(_)
FormatAll(items) ==
    IF items = <<>> THEN <<>>
    ELSE <<format_record(Head(items))>> \o FormatAll(Tail(items))

\* {item.key for item in items}
KeysOf(items) == {items[i].key : i \in 1..Len(items)}

(***************************************************************************)
(* StreamGroup                                                             *)
(***************************************************************************)
\* StreamConsumerInfo(name).  last_attempt and last_success are wall-clock
\* readings that no operation modelled here reads back; they are left out.
StreamConsumerInfo(name) == [name |-> name, pending |-> 0]

\* StreamGroup.__init__
StreamGroup(start_key, entries_read) ==
    [start_key |-> start_key,
     entries_read |-> entries_read,
     consumers |-> EmptyDict,
     last_delivered_key |-> start_key,
     last_ack_key |-> start_key,
     pel |-> {}]

\* XStream.group_add, start_key
group_add_start_key(vals, start_key_str) ==
    IF start_key_str.kind = "$"
    THEN IF Len(vals) > 0 THEN At(vals, Len(vals) - 1).key ELSE StreamEntryKey(0, 0)
    ELSE parse_str(start_key_str)

\* StreamGroup.group_read, start_key
group_read_start_key(group, start_id) ==
    IF start_id.kind = ">"
    THEN group.last_delivered_key
    ELSE KeyMax(parse_str(start_id), group.last_delivered_key)

\* group_read_update that puts the cursor back on start_key when a read
\* returns nothing.
group_read_update_resets(group, consumer_name, items, noack) ==
    LET consumers1 == IF consumer_name \in DOMAIN group.consumers
                      THEN group.consumers
                      ELSE [c \in DOMAIN group.consumers \cup {consumer_name} |->
                               IF c = consumer_name
                               THEN StreamConsumerInfo(consumer_name)
                               ELSE group.consumers[c]]
        consumer == consumers1[consumer_name]
    IN  [group EXCEPT
            !.consumers = [consumers1 EXCEPT ![consumer_name] =
                               [consumer EXCEPT !.pending = @ + Len(items)]],
            !.pel = IF noack THEN @ ELSE @ \cup KeysOf(items),
            !.last_delivered_key =
                IF Len(items) > 0 THEN KeyMax(@, LastOf(items).key) ELSE group.start_key,
            !.entries_read =
                IF Len(items) > 0 THEN Some(OrZero(@) + Len(items)) ELSE @]

\* StreamGroup.group_read, the group after the read of items by consumer_name
group_read_update(group, consumer_name, items, noack) ==
    LET consumers1 == IF consumer_name \in DOMAIN group.consumers
                      THEN group.consumers
                      ELSE [c \in DOMAIN group.consumers \cup {consumer_name} |->
                               IF c = consumer_name
                               THEN StreamConsumerInfo(consumer_name)
                               ELSE group.consumers[c]]
        consumer == consumers1[consumer_name]
    IN  [group EXCEPT
            !.consumers = [consumers1 EXCEPT ![consumer_name] =
                               [consumer EXCEPT !.pending = @ + Len(items)]],
            !.pel = IF noack THEN @ ELSE @ \cup KeysOf(items),
            !.last_delivered_key =
                IF Len(items) > 0 THEN KeyMax(@, LastOf(items).key) ELSE @,
            !.entries_read =
                IF Len(items) > 0 THEN Some(OrZero(@) + Len(items)) ELSE @]

\* StreamGroup.add_consumer: <<the consumers afterwards, the value returned>>
add_consumer(consumers, consumer_name) ==
    IF consumer_name \in DOMAIN consumers
    THEN <<consumers, 0>>
    ELSE <<[c \in DOMAIN consumers \cup {consumer_name} |->
               IF c = consumer_name THEN StreamConsumerInfo(consumer_name)
               ELSE consumers[c]], 1>>

\* del_consumer that reports the pending count but keeps the consumer.
del_consumer_keeps(consumers, consumer_name) ==
    IF consumer_name \notin DOMAIN consumers
    THEN <<consumers, 0>>
    ELSE <<consumers, consumers[consumer_name].pending>>

\* StreamGroup.del_consumer: <<the consumers afterwards, the value returned>>
del_consumer(consumers, consumer_name) ==
    IF consumer_name \notin DOMAIN consumers
    THEN <<consumers, 0>>
    ELSE <<[c \in DOMAIN consumers \ {consumer_name} |-> consumers[c]],
           consumers[consumer_name].pending>>

\* XStream.parse_ts_seq: b'$' is read as 0-0, not as the last key
parse_ts_seq(ts_seq_str) ==
    IF ts_seq_str.kind = "$" THEN StreamEntryKey(0, 0) ELSE parse_str(ts_seq_str)

\* StreamGroup.set_id, the index handed to self.stream[...]
set_id_index(vals, start_key, entries_read) ==
    Min(find_index(vals, start_key, TRUE)[1] + OrZero(entries_read), Len(vals) - 1)

\* StreamGroup.set_id: <<the group afterwards, whether IndexError was raised>>.
\* start_key and entries_read are assigned before the stream is indexed, so
\* they keep their new values when the indexing raises.
set_id(vals, group, last_delivered_str, entries_read) ==
    LET start_key == parse_ts_seq(last_delivered_str)
        i == set_id_index(vals, start_key, entries_read)
        assigned == [group EXCEPT !.start_key = start_key,
                                  !.entries_read = entries_read]
    IN  IF i >= Len(vals) \/ i < 0 - Len(vals)
        THEN <<assigned, TRUE>>
        ELSE <<[assigned EXCEPT !.last_delivered_key =
                   (IF i < 0 THEN At(vals, Len(vals) + i) ELSE At(vals, i)).key],
               FALSE>>

\* StreamGroup.group_info, as a record of the fields it lists
group_info(vals, name, group) ==
    LET start_index == find_index(vals, group.start_key, TRUE)[1]
        last_delivered_index == find_index(vals, group.last_delivered_key, TRUE)[1]
        last_ack_index == find_index(vals, group.last_ack_key, TRUE)[1]
        lag == IF start_index + OrZero(group.entries_read) > Len(vals)
               THEN Len(vals) - start_index - group.entries_read[1]
               ELSE Len(vals) - 1 - last_delivered_index
    IN  [name |-> name,
         consumers |-> Cardinality(DOMAIN group.consumers),
         pending |-> last_delivered_index - last_ack_index,
         last_delivered_id |-> encode(group.last_delivered_key),
         entries_read |-> group.entries_read,
         lag |-> lag]

(***************************************************************************)
(* The calls.  Each records its name and its result in ret.                *)
(* hist keeps, for every group, the keys its reads have returned           *)
(* (delivered) and, for a group created at '$' and since then only read    *)
(* with '>' while the stream was only appended to (tracking), the entries  *)
(* appended since (appended) and the entries its reads returned (got).     *)
(***************************************************************************)
NoHistory == [delivered |-> {}, tracking |-> FALSE, appended |-> <<>>, got |-> <<>>]

StopTracking(h) ==
    [g \in DOMAIN h |-> [h[g] EXCEPT !.tracking = FALSE, !.appended = <<>>, !.got = <<>>]]

Init ==
    /\ values = <<>>
    /\ groups = EmptyDict
    /\ max_deleted_id = StreamEntryKey(0, 0)
    /\ entries_added = 0
    /\ ret = [op |-> "__init__"]
    /\ hist = EmptyDict

\* XStream.add(fields, entry_key) with the clock reading now
Add(fields, entry_key, now) ==
    LET ts_seq == add_ts_seq(values, entry_key, now)
        added == ts_seq # None /\ ~add_refuses(values, ts_seq[1])
        entry == StreamEntry(ts_seq[1], fields)
    IN  /\ entries_added < MaxAdded
        /\ values' = IF added THEN Append(values, entry) ELSE values
        /\ entries_added' = IF added THEN entries_added + 1 ELSE entries_added
        /\ UNCHANGED <<max_deleted_id, groups>>
        /\ hist' = IF added
                   THEN [g \in DOMAIN hist |->
                            IF hist[g].tracking
                            THEN [hist[g] EXCEPT !.appended = Append(@, entry)]
                            ELSE hist[g]]
                   ELSE hist
        /\ ret' = [op |-> "add", kind |-> entry_key.kind,
                   res |-> IF added THEN Some(encode(entry.key)) ELSE None]

\* delete that takes what it removes off entries_added.
Delete_uncounts(lst) ==
    LET d == delete_loop(values, max_deleted_id, lst, 0)
    IN  /\ values' = d.values
        /\ max_deleted_id' = d.max_deleted_id
        /\ entries_added' = entries_added - d.res
        /\ UNCHANGED groups
        /\ hist' = StopTracking(hist)
        /\ ret' = [op |-> "delete", res |-> d.res]

\* XStream.delete(lst)
Delete(lst) ==
    LET d == delete_loop(values, max_deleted_id, lst, 0)
    IN  /\ values' = d.values
        /\ max_deleted_id' = d.max_deleted_id
        /\ UNCHANGED <<entries_added, groups>>
        /\ hist' = StopTracking(hist)
        /\ ret' = [op |-> "delete", res |-> d.res]

\* Trim that counts the entries it cuts off as deleted ones.
Trim_marks(max_length, start_entry_key, limit) ==
    LET raised == trim_raises(max_length, start_entry_key)
        res == trim_res(values, max_length, start_entry_key, limit)
    IN  /\ values' = IF raised THEN values ELSE SliceFrom(values, res)
        /\ max_deleted_id' = IF raised \/ res < 1 THEN max_deleted_id
                             ELSE KeyMax(max_deleted_id, At(values, res - 1).key)
        /\ UNCHANGED <<entries_added, groups>>
        /\ hist' = StopTracking(hist)
        /\ ret' = [op |-> "trim", max_length |-> max_length, limit |-> limit,
                   raised |-> raised, res |-> IF raised THEN 0 ELSE res]

\* XStream.trim(max_length, start_entry_key, limit)
Trim(max_length, start_entry_key, limit) ==
    LET raised == trim_raises(max_length, start_entry_key)
        res == trim_res(values, max_length, start_entry_key, limit)
    IN  /\ values' = IF raised THEN values ELSE SliceFrom(values, res)
        /\ UNCHANGED <<max_deleted_id, entries_added, groups>>
        /\ hist' = StopTracking(hist)
        /\ ret' = [op |-> "trim", max_length |-> max_length, limit |-> limit,
                   raised |-> raised, res |-> IF raised THEN 0 ELSE res]

\* XStream.irange(start, stop, reverse)
IRange(start, stop, reverse) ==
    /\ UNCHANGED <<values, max_deleted_id, entries_added, groups, hist>>
    /\ ret' = [op |-> "irange",
               whole |-> (start.value = BeforeAny /\ stop.value = AfterAny),
               reverse |-> reverse,
               res |-> irange(values, start, stop, reverse)]

\* XStream.group_add(name, start_key_str, entries_read)
GroupAdd(name, start_key_str, entries_read) ==
    LET group == StreamGroup(group_add_start_key(values, start_key_str), entries_read)
        h == [NoHistory EXCEPT !.tracking = (start_key_str.kind = "$")]
    IN  /\ groups' = [g \in DOMAIN groups \cup {name} |->
                         IF g = name THEN group ELSE groups[g]]
        /\ hist' = [g \in DOMAIN groups \cup {name} |->
                       IF g = name THEN h ELSE hist[g]]
        /\ UNCHANGED <<values, max_deleted_id, entries_added>>
        /\ ret' = [op |-> "group_add", name |-> name]

\* GroupRead that moves the cursor of every group of the stream.
GroupRead_shared(name, consumer_name, start_id, count, noack) ==
    /\ name \in DOMAIN groups
    /\ OrZero(groups[name].entries_read) < MaxRead
    /\ LET group == groups[name]
           start_key == group_read_start_key(group, start_id)
           items == stream_read(values, start_key, count)
           after == group_read_update(group, consumer_name, items, noack)
       IN  /\ groups' = [g \in DOMAIN groups |->
                            IF g = name THEN after
                            ELSE [groups[g] EXCEPT !.last_delivered_key =
                                                       after.last_delivered_key]]
           /\ hist' = [hist EXCEPT ![name] =
                          IF start_id.kind = ">"
                          THEN [@ EXCEPT !.delivered = @ \cup KeysOf(items),
                                         !.got = IF hist[name].tracking
                                                 THEN @ \o items ELSE @]
                          ELSE [@ EXCEPT !.delivered = @ \cup KeysOf(items),
                                         !.tracking = FALSE,
                                         !.appended = <<>>, !.got = <<>>]]
           /\ ret' = [op |-> "group_read", name |-> name,
                      kind |-> start_id.kind, count |-> count, noack |-> noack,
                      res |-> FormatAll(items)]
    /\ UNCHANGED <<values, max_deleted_id, entries_added>>

\* XStream.group_get(name).group_read(consumer_name, start_id, count, noack)
GroupRead(name, consumer_name, start_id, count, noack) ==
    /\ name \in DOMAIN groups
    /\ OrZero(groups[name].entries_read) < MaxRead
    /\ LET group == groups[name]
           start_key == group_read_start_key(group, start_id)
           items == stream_read(values, start_key, count)
       IN  /\ groups' = [groups EXCEPT
                            ![name] = group_read_update(group, consumer_name, items, noack)]
           /\ hist' = [hist EXCEPT ![name] =
                          IF start_id.kind = ">"
                          THEN [@ EXCEPT !.delivered = @ \cup KeysOf(items),
                                         !.got = IF hist[name].tracking
                                                 THEN @ \o items ELSE @]
                          ELSE [@ EXCEPT !.delivered = @ \cup KeysOf(items),
                                         !.tracking = FALSE,
                                         !.appended = <<>>, !.got = <<>>]]
           /\ ret' = [op |-> "group_read", name |-> name,
                      kind |-> start_id.kind, count |-> count, noack |-> noack,
                      res |-> FormatAll(items)]
    /\ UNCHANGED <<values, max_deleted_id, entries_added>>

\* XStream.group_get(name).add_consumer(consumer_name)
AddConsumer(name, consumer_name) ==
    /\ name \in DOMAIN groups
    /\ LET r == add_consumer(groups[name].consumers, consumer_name)
       IN  /\ groups' = [groups EXCEPT ![name].consumers = r[1]]
           /\ ret' = [op |-> "add_consumer", name |-> name, res |-> r[2]]
    /\ UNCHANGED <<values, max_deleted_id, entries_added, hist>>

\* XStream.group_get(name).del_consumer(consumer_name)
DelConsumer(name, consumer_name) ==
    /\ name \in DOMAIN groups
    /\ LET r == del_consumer(groups[name].consumers, consumer_name)
       IN  /\ groups' = [groups EXCEPT ![name].consumers = r[1]]
           /\ ret' = [op |-> "del_consumer", name |-> name, res |-> r[2]]
    /\ UNCHANGED <<values, max_deleted_id, entries_added, hist>>

\* XStream.group_get(name).set_id(last_delivered_str, entries_read)
SetId(name, last_delivered_str, entries_read) ==
    /\ name \in DOMAIN groups
    /\ LET r == set_id(values, groups[name], last_delivered_str, entries_read)
       IN  /\ groups' = [groups EXCEPT ![name] = r[1]]
           /\ ret' = [op |-> "set_id", name |-> name, raised |-> r[2]]
    /\ hist' = [hist EXCEPT ![name] =
                   [@ EXCEPT !.tracking = FALSE, !.appended = <<>>, !.got = <<>>]]
    /\ UNCHANGED <<values, max_deleted_id, entries_added>>

\* XStream.group_get(name).group_info()
GroupInfo(name) ==
    /\ name \in DOMAIN groups
    /\ ret' = [op |-> "group_info", name |-> name,
               res |-> group_info(values, name, groups[name])]
    /\ UNCHANGED <<values, max_deleted_id, entries_added, groups, hist>>

\* XStream.stream_read(start_key, count)
StreamRead(start_key, count) ==
    /\ ret' = [op |-> "stream_read", start_key |-> start_key, count |-> count,
               res |-> stream_read(values, start_key, count)]
    /\ UNCHANGED <<values, max_deleted_id, entries_added, groups, hist>>

(***************************************************************************)
(* The arguments the callers hand over                                     *)
(***************************************************************************)
Timestamps == 0..MaxTs
\* The sequence numbers callers give; add itself makes greater ones.
SeqNumbers == {0, 1}

FieldLists == {<<"a", "1">>}

FullKeyStrs == {KeyStr("ts-seq", t, s) : t \in Timestamps, s \in SeqNumbers}
ShortKeyStrs == {KeyStr("ts", t, 0) : t \in Timestamps}
AutoSeqKeyStrs == {KeyStr("ts-*", t, 0) : t \in Timestamps}
Star == KeyStr("*", 0, 0)
MalformedStar == KeyStr("ts-seq-*", 0, 0)
Dollar == KeyStr("$", 0, 0)
NewMessages == KeyStr(">", 0, 0)

AddKeyStrs == FullKeyStrs \cup ShortKeyStrs \cup AutoSeqKeyStrs \cup {Star, MalformedStar}

\* The clock is read by add only for '*'.
Clock(entry_key) == IF entry_key.kind = "*" THEN Timestamps ELSE {0}

\* The lists handed to delete: no key, one key, two keys (twice the same too).
DeleteLists ==
    {<<>>} \cup {<<k>> : k \in FullKeyStrs}
           \cup {<<k1, k2>> : k1 \in FullKeyStrs, k2 \in FullKeyStrs}

OptionOf(S) == {None} \cup {Some(x) : x \in S}

TrimArgs ==
    ({Some(n) : n \in 0..(MaxAdded + 1)} \X {None} \X OptionOf({0, 1}))
    \cup ({None} \X {Some(k) : k \in FullKeyStrs \cup {Dollar}} \X OptionOf({0, 1}))
    \cup {<<None, None, None>>, <<Some(0), Some(Dollar), None>>}

RangeTests ==
    {StreamRangeTest(BeforeAny, TRUE), StreamRangeTest(AfterAny, TRUE)}
    \cup {StreamRangeTest(RealKey(k), x) :
             k \in {StreamEntryKey(0, 1), StreamEntryKey(1, 0)}, x \in BOOLEAN}

LogNext ==
    \/ \E fields \in FieldLists, entry_key \in AddKeyStrs :
          \E now \in Clock(entry_key) : Add(fields, entry_key, now)
    \/ \E lst \in DeleteLists : Delete(lst)
    \/ \E a \in TrimArgs : Trim(a[1], a[2], a[3])
    \/ \E start \in RangeTests, stop \in RangeTests, reverse \in BOOLEAN :
          IRange(start, stop, reverse)

Next == LogNext

\* The stream alone: no group is ever created.
Spec == Init /\ [][Next]_vars

GroupNames == {"g1"}
ConsumerNames == {"c1", "c2"}

\* The keys a stream with groups is given: 0-0, 0-1, 1-0, 1-1, 0-* and 1-*.
GroupKeyStrs ==
    {KeyStr("ts-seq", t, s) : t \in {0, 1}, s \in {0, 1}}
    \cup {KeyStr("ts-*", t, 0) : t \in {0, 1}}

GroupStartStrs == {Dollar, KeyStr("ts", 0, 0)}
Counts == {None, Some(1)}

\* The calls on the stream that a stream with groups is driven by.
GroupLogNext ==
    \/ \E fields \in FieldLists, entry_key \in GroupKeyStrs :
          entries_added < MaxGroupAdded /\ Add(fields, entry_key, 0)
    \/ \E k \in {KeyStr("ts-seq", 0, 1), KeyStr("ts-seq", 1, 0)} : Delete(<<k>>)
    \/ Trim(Some(1), None, None)

GroupNext ==
    \/ GroupLogNext
    \/ \E name \in GroupNames, start_key_str \in GroupStartStrs :
          GroupAdd(name, start_key_str, None)
    \/ \E name \in GroupNames, consumer_name \in ConsumerNames,
          count \in Counts, noack \in BOOLEAN :
          GroupRead(name, consumer_name, NewMessages, count, noack)
    \/ \E name \in GroupNames, consumer_name \in ConsumerNames :
          GroupRead(name, consumer_name, KeyStr("ts-seq", 0, 1), None, FALSE)
    \/ \E name \in GroupNames, consumer_name \in ConsumerNames :
          AddConsumer(name, consumer_name)
    \/ \E name \in GroupNames, consumer_name \in ConsumerNames :
          DelConsumer(name, consumer_name)

\* The stream with one consumer group, read by two consumers.
SpecGroup == Init /\ [][GroupNext]_vars

\* The keys stream_read is asked to read from, and how many entries.
ReadKeys == {StreamEntryKey(t, q) : t \in {0, 1}, q \in {0, 1}}
ReadCounts == {None, Some(0), Some(1), Some(2)}

ReadNext ==
    \/ \E fields \in FieldLists, entry_key \in GroupKeyStrs :
          entries_added < MaxAdded /\ Add(fields, entry_key, 0)
    \/ \E k \in {KeyStr("ts-seq", 0, 1), KeyStr("ts-seq", 1, 0)} : Delete(<<k>>)
    \/ Trim(Some(1), None, None)
    \/ \E start_key \in ReadKeys, count \in ReadCounts : StreamRead(start_key, count)

\* The stream read from a key onwards, without groups.
SpecRead == Init /\ [][ReadNext]_vars

\* The arguments of set_id.
SetIdStrs == {Dollar, KeyStr("ts-seq", 1, 0)}
SetIdEntriesRead == {None, Some(1)}

\* A read is not started by a consumer whose pending count reached MaxPending.
MayRead(name, consumer_name) ==
    /\ name \in DOMAIN groups
    /\ consumer_name \in DOMAIN groups[name].consumers
          => groups[name].consumers[consumer_name].pending < MaxPending

CursorNext ==
    \/ GroupLogNext
    \/ \E name \in GroupNames, start_key_str \in GroupStartStrs :
          name \notin DOMAIN groups /\ GroupAdd(name, start_key_str, None)
    \/ \E name \in GroupNames, count \in Counts :
          MayRead(name, "c1") /\ GroupRead(name, "c1", NewMessages, count, FALSE)
    \/ \E name \in GroupNames :
          MayRead(name, "c1") /\ GroupRead(name, "c1", NewMessages, None, TRUE)
    \/ \E name \in GroupNames :
          /\ MayRead(name, "c1")
          /\ GroupRead(name, "c1", KeyStr("ts-seq", 0, 1), None, FALSE)
    \/ \E name \in GroupNames, last_delivered_str \in SetIdStrs,
          entries_read \in SetIdEntriesRead :
          SetId(name, last_delivered_str, entries_read)
    \/ \E name \in GroupNames : GroupInfo(name)

\* The stream with one consumer group, created once and read by one
\* consumer, whose cursor is also repositioned with set_id and whose state is
\* reported by group_info.
SpecCursor == Init /\ [][CursorNext]_vars

TwoGroupNames == {"g1", "g2"}

TwoNext ==
    \/ \E fields \in FieldLists, entry_key \in {KeyStr("ts-seq", 0, 1), KeyStr("ts-*", 1, 0)} :
          entries_added < MaxGroupAdded /\ Add(fields, entry_key, 0)
    \/ \E name \in TwoGroupNames, start_key_str \in GroupStartStrs :
          name \notin DOMAIN groups /\ GroupAdd(name, start_key_str, None)
    \/ \E name \in TwoGroupNames :
          MayRead(name, "c1") /\ GroupRead(name, "c1", NewMessages, Some(1), FALSE)
    \/ \E name \in TwoGroupNames :
          SetId(name, KeyStr("ts-seq", 0, 0), Some(0))
    \/ \E name \in TwoGroupNames : AddConsumer(name, "c1")
    \/ \E name \in TwoGroupNames : DelConsumer(name, "c1")

\* The stream with two consumer groups, each created once.
SpecTwo == Init /\ [][TwoNext]_vars

(***************************************************************************)
(* Properties of the stream alone (Spec)                                   *)
(***************************************************************************)
ExplicitKeyStrs == FullKeyStrs \cup ShortKeyStrs

KeyLessEq(a, b) == ~KeyLess(b, a)

\* C1: on a non-empty stream, add with an explicit key that is less than or
\* equal to the key of the last entry returns None and leaves the entries
\* and entries_added as they were.
C1_StaleKeyRejected ==
    [][\A fields \in FieldLists, entry_key \in ExplicitKeyStrs :
          (/\ Add(fields, entry_key, 0)
           /\ Len(values) > 0
           /\ KeyLessEq(parse_str(entry_key), LastOf(values).key))
          => (/\ ret'.res = None
              /\ values' = values
              /\ entries_added' = entries_added)]_vars

\* C2: the entries are strictly increasing by key: each entry's key is
\* greater than the key of the entry before it.
C2_StrictlyIncreasing ==
    \A i \in 1..(Len(values) - 1) : KeyLess(values[i].key, values[i + 1].key)

\* The last n entries of a list, in their order.
LastN(lst, n) == SubSeq(lst, Len(lst) - n + 1, Len(lst))

GeneratedKey(vals, ts) ==
    IF Len(vals) = 0 \/ LastOf(vals).key.ts # ts
    THEN StreamEntryKey(ts, 0)
    ELSE StreamEntryKey(ts, LastOf(vals).key.seq + 1)

\* C6: add with '<ts>-*', or with '*' when the clock reads ts, uses the key
\* (ts, 0) when the stream is empty or its last key has another timestamp and
\* (ts, last.seq + 1) otherwise: whatever it returns is that key, encoded, and
\* the entry appended carries it; when the stream is empty or ts is not less
\* than the last timestamp the call succeeds and the key is greater than
\* every stored key.  So '<ts>-*' twice on an empty stream gives ts-0, ts-1.
C6_GeneratedSequence ==
    [][\A fields \in FieldLists, entry_key \in AutoSeqKeyStrs \cup {Star} :
          \A now \in Clock(entry_key) :
             Add(fields, entry_key, now)
             => LET ts == IF entry_key.kind = "*" THEN now ELSE entry_key.ts
                    key == GeneratedKey(values, ts)
                IN  /\ ret'.res \in {None, Some(KeyStr("ts-seq", key.ts, key.seq))}
                    /\ ret'.res # None
                          => values' = Append(values, StreamEntry(key, fields))
                    /\ ret'.res = None => values' = values
                    /\ (Len(values) = 0 \/ ts >= LastOf(values).key.ts)
                          => /\ ret'.res # None
                             /\ \A i \in 1..Len(values) : KeyLess(values[i].key, key)
                    /\ (Len(values) = 0)
                          => ret'.res = Some(KeyStr("ts-seq", ts, 0))
                    /\ (Len(values) = 1 /\ values[1].key = StreamEntryKey(ts, 0))
                          => ret'.res = Some(KeyStr("ts-seq", ts, 1))]_vars

\* '1-*' was added twice to an empty stream: the stream holds 1-0 and 1-1 and
\* the second call returned 1-1.
C6_Witness ==
    /\ ret.op = "add" /\ ret.kind = "ts-*"
    /\ ret.res = Some(KeyStr("ts-seq", 1, 1))
    /\ Len(values) = 2
    /\ values[1].key = StreamEntryKey(1, 0)
    /\ values[2].key = StreamEntryKey(1, 1)
    /\ entries_added = 2

\* The keys a list of key strings names.
ListedKeys(lst) == {parse_str(lst[i]) : i \in 1..Len(lst)}

\* The entries of a list whose key is not among keys, in their order.
RECURSIVE Without(_, _)
Without(lst, keys) ==
    IF lst = <<>> THEN <<>>
    ELSE IF Head(lst).key \in keys THEN Without(Tail(lst), keys)
    ELSE <<Head(lst)>> \o Without(Tail(lst), keys)

\* C7: delete(keys) returns the number of distinct listed keys that were
\* stored, leaves every entry whose key is not listed in place and in order,
\* and leaves no entry with a listed key, so that the same delete again
\* returns 0.
C7_DeleteRemovesListed ==
    [][\A lst \in DeleteLists :
          Delete(lst)
          => /\ ret'.res = Cardinality(ListedKeys(lst) \cap KeysOf(values))
             /\ values' = Without(values, ListedKeys(lst))
             /\ delete_loop(values', max_deleted_id', lst, 0).res = 0]_vars

\* C8: irange(BeforeAny, AfterAny) returns every entry, formatted, in the
\* order of the stream, which is ascending by key; with reverse=True it
\* returns them in the opposite order; neither call changes the stream.
C8_FullRange ==
    [][\A reverse \in BOOLEAN :
          IRange(StreamRangeTest(BeforeAny, TRUE), StreamRangeTest(AfterAny, TRUE), reverse)
          => LET n == Len(values)
                 res == ret'.res
             IN  /\ Len(res) = n
                 /\ \A i \in 1..n :
                       res[i] = IF reverse
                                THEN <<KeyStr("ts-seq", values[n + 1 - i].key.ts,
                                              values[n + 1 - i].key.seq),
                                       values[n + 1 - i].fields>>
                                ELSE <<KeyStr("ts-seq", values[i].key.ts, values[i].key.seq),
                                       values[i].fields>>
                 /\ \A i \in 1..(n - 1) : KeyLessEq(values[i].key, values[i + 1].key)
                 /\ values' = values
                 /\ max_deleted_id' = max_deleted_id
                 /\ entries_added' = entries_added]_vars

\* irange(BeforeAny, AfterAny, reverse=True) has returned the three entries
\* of a stream, the last one first.
C8_Witness ==
    /\ ret.op = "irange" /\ ret.whole
    /\ ret.reverse
    /\ Len(values) = 3 /\ Len(ret.res) = 3
    /\ KeyLess(values[1].key, values[3].key)
    /\ ret.res[1][1] = KeyStr("ts-seq", values[3].key.ts, values[3].key.seq)

(***************************************************************************)
(* Properties of the stream with a consumer group (SpecGroup)              *)
(***************************************************************************)
\* The keys of the records a read returned.
ReturnedKeys(res) == {parse_str(res[i][1]) : i \in 1..Len(res)}

\* C3: a group_read(consumer, '>', count, noack=False) returns only keys that
\* no earlier read of the group returned, and after it every returned key is
\* in the group's PEL.
C3_NoRedelivery ==
    [][\A name \in GroupNames, consumer_name \in ConsumerNames, count \in Counts :
          GroupRead(name, consumer_name, NewMessages, count, FALSE)
          => /\ ReturnedKeys(ret'.res) \cap hist[name].delivered = {}
             /\ ReturnedKeys(ret'.res) \subseteq groups'[name].pel]_vars

IsPrefix(a, b) == Len(a) <= Len(b) /\ SubSeq(b, 1, Len(a)) = a

\* C4: for a group created at '$', while the stream is only appended to and
\* the group only read with '>': the reads have returned, in order and each
\* once, entries appended after the group was created (none before the first
\* such append), and after a read without count they have returned all of
\* them.
C4_DollarGroupReadsNewEntries ==
    \A name \in DOMAIN hist :
        hist[name].tracking
        => /\ IsPrefix(hist[name].got, hist[name].appended)
           /\ (ret.op = "group_read" /\ ret.name = name /\ ret.count = None)
                 => hist[name].got = hist[name].appended

\* C9: del_consumer(name) returns the consumer's pending count and removes
\* the consumer when it exists, returns 0 when it does not (so a second call
\* returns 0), and leaves the group's PEL, last_delivered_key and
\* entries_read as they were.
C9_DelConsumer ==
    [][\A name \in GroupNames, consumer_name \in ConsumerNames :
          DelConsumer(name, consumer_name)
          => LET before == groups[name]
                 after == groups'[name]
             IN  /\ consumer_name \in DOMAIN before.consumers
                       => /\ ret'.res = before.consumers[consumer_name].pending
                          /\ DOMAIN after.consumers
                                = DOMAIN before.consumers \ {consumer_name}
                 /\ consumer_name \notin DOMAIN before.consumers
                       => /\ ret'.res = 0
                          /\ after.consumers = before.consumers
                 /\ \A c \in DOMAIN after.consumers :
                       after.consumers[c] = before.consumers[c]
                 /\ del_consumer(after.consumers, consumer_name)[2] = 0
                 /\ after.pel = before.pel
                 /\ after.last_delivered_key = before.last_delivered_key
                 /\ after.entries_read = before.entries_read]_vars

\* del_consumer has removed a consumer with two pending entries, returned 2,
\* and the PEL still holds keys.
C9_Witness ==
    /\ ret.op = "del_consumer" /\ ret.res = 2
    /\ "g1" \in DOMAIN groups
    /\ groups["g1"].pel # {}
    /\ Cardinality(DOMAIN groups["g1"].consumers) = 1

\* C10: entries_added starts at 0, goes up by exactly 1 with every add that
\* returns a key, and is left as it is by an add that returns None, by
\* delete, by trim and by every call on a group; so it is the number of adds
\* that returned a key.
C10_EntriesAdded ==
    /\ entries_added = 0
    /\ [][entries_added' =
             entries_added + (IF ret'.op = "add" /\ ret'.res # None THEN 1 ELSE 0)]_vars

\* Two entries were added, a group has read one of them, and a trim has cut
\* the stream to one entry: entries_added is still 2.
C10_Witness ==
    /\ ret.op = "trim" /\ ret.res = 1
    /\ Len(values) = 1
    /\ entries_added = 2
    /\ "g1" \in DOMAIN groups
    /\ groups["g1"].entries_read = Some(1)

(***************************************************************************)
(* C11  The original statement: for every consumer group,                  *)
(* last_delivered_key never decreases, whatever the call: a group read, a  *)
(* set_id, an append, a delete or a trim.                                  *)
(***************************************************************************)
CursorKept(g) ==
    KeyLessEq(groups[g].last_delivered_key, groups'[g].last_delivered_key)

C11_CursorNeverDecreases ==
    [][\A g \in DOMAIN groups \cap DOMAIN groups' : CursorKept(g)]_vars

(***************************************************************************)
(* C11  As the code has it: for every consumer group, last_delivered_key   *)
(* never decreases over a group read, an append, a delete, a trim or a     *)
(* group_info; set_id alone may put it on an earlier key.                  *)
(***************************************************************************)
C11_CursorNeverDecreasesButBySetId ==
    [][ret'.op # "set_id" =>
          \A g \in DOMAIN groups \cap DOMAIN groups' : CursorKept(g)]_vars

\* A read moved the cursor of g1 up to 1-1 on a stream that a delete had
\* taken an entry from.
C11_Witness ==
    /\ ret.op = "group_read"
    /\ Len(ret.res) > 0
    /\ "g1" \in DOMAIN groups
    /\ groups["g1"].last_delivered_key = StreamEntryKey(1, 1)
    /\ max_deleted_id # StreamEntryKey(0, 0)

(***************************************************************************)
(* Further properties of the stream alone                                  *)
(***************************************************************************)
\* The bounds of a range that are keys.
RealRangeTests == {t \in RangeTests : t.value.kind = "key"}

\* key passes the lower bound start and the upper bound stop.
Admits(start, stop, key) ==
    /\ IF start.exclusive THEN KeyLess(start.value.key, key)
                          ELSE KeyLessEq(start.value.key, key)
    /\ IF stop.exclusive THEN KeyLess(key, stop.value.key)
                         ELSE KeyLessEq(key, stop.value.key)

\* C12: irange(start, stop) with keys for bounds returns, in ascending order,
\* exactly the stored entries whose key lies between the bounds, where an
\* inclusive bound admits an entry whose key equals it and an exclusive bound
\* leaves that entry out; so an exclusive stop equal to a stored key leaves
\* that entry out.
C12_RangeBounds ==
    [][\A start \in RealRangeTests, stop \in RealRangeTests :
          IRange(start, stop, FALSE)
          => ret'.res = FormatAll(SelectSeq(values,
                                            LAMBDA e : Admits(start, stop, e.key)))]_vars

\* C13: trim with a limit >= 0 and either max_length or a minimum key takes
\* the cut index (clamped to 0 when negative) and removes at most limit
\* entries; it removes entries only from the front, and the value it returns
\* is non-negative and is the number of entries removed.
C13_TrimLimit ==
    [][\A a \in TrimArgs :
          a[3] # None /\ ~trim_raises(a[1], a[2]) /\ Trim(a[1], a[2], a[3])
          => LET L == Len(values)
                 r == ret'.res
             IN  /\ ~ret'.raised
                 /\ r >= 0
                 /\ r <= a[3][1]
                 /\ r <= Max(trim_start_ind(values, a[1], a[2]), 0)
                 /\ r = L - Len(values')
                 /\ values' = LastN(values, L - r)]_vars

\* C14: stream_read(start_key, count), where m stored entries have a key
\* strictly greater than start_key, returns the first min(count, m) of them
\* in ascending order (all m when count is None) and never an entry whose key
\* is equal to or less than start_key; it changes nothing.
After(vals, start_key) == SelectSeq(vals, LAMBDA e : KeyLess(start_key, e.key))

C14_ReadFrom ==
    [][\A start_key \in ReadKeys, count \in ReadCounts :
          StreamRead(start_key, count)
          => LET later == After(values, start_key)
                 n == IF count = None THEN Len(later) ELSE Min(count[1], Len(later))
             IN  /\ ret'.res = SubSeq(later, 1, n)
                 /\ \A i \in 1..Len(ret'.res) : KeyLess(start_key, ret'.res[i].key)
                 /\ values' = values]_vars

(***************************************************************************)
(* Further properties of the stream with a consumer group                  *)
(***************************************************************************)
\* C15: a group read with an explicit start_id never returns an entry whose
\* key is equal to or less than the group's last_delivered_key at the time of
\* the call: it returns the entries strictly after
\* max(start_id, last_delivered_key).
C15_ExplicitStartRead ==
    [][\A name \in GroupNames, consumer_name \in ConsumerNames :
          GroupRead(name, consumer_name, KeyStr("ts-seq", 0, 1), None, FALSE)
          => LET cursor == groups[name].last_delivered_key
                 from == KeyMax(StreamEntryKey(0, 1), cursor)
             IN  /\ ret'.res = FormatAll(After(values, from))
                 /\ \A key \in ReturnedKeys(ret'.res) : KeyLess(cursor, key)]_vars

\* The greatest key of a non-empty set of keys.
GreatestKey(S) == CHOOSE k \in S : \A j \in S : KeyLessEq(j, k)

\* C16: max_deleted_id is the greatest key ever removed by delete, 0-0 when
\* none was: a delete raises it to the greatest of its old value and the
\* stored keys the call removes, it never decreases, and every other call
\* (add, trim, the calls on a group) leaves it as it is.
C16_MaxDeletedId ==
    [][/\ ret.op = "__init__" => max_deleted_id = StreamEntryKey(0, 0)
       /\ KeyLessEq(max_deleted_id, max_deleted_id')
       /\ ret'.op # "delete" => max_deleted_id' = max_deleted_id
       /\ ret'.op = "delete"
             => \A k \in FullKeyStrs :
                   Delete(<<k>>)
                   => max_deleted_id' =
                         GreatestKey({max_deleted_id}
                                     \cup ({parse_str(k)} \cap KeysOf(values)))]_vars

\* g1 has been read up to the stored entry 1-0 after 0-1 was deleted, and
\* max_deleted_id is still 0-1.
C16_Witness ==
    /\ ret.op = "group_read"
    /\ Len(ret.res) > 0
    /\ max_deleted_id = StreamEntryKey(0, 1)
    /\ Len(values) = 1
    /\ values[1].key = StreamEntryKey(1, 0)

\* C17: group_info, whenever start_index + entries_read does not exceed the
\* length of the stream, reports a lag that is non-negative and is the number
\* of stored entries with a key strictly greater than last_delivered_key;
\* this includes the empty stream and a group whose start key is not stored.
C17_Lag ==
    [][\A name \in GroupNames :
          /\ GroupInfo(name)
          /\ find_index(values, groups[name].start_key, TRUE)[1]
                + OrZero(groups[name].entries_read) <= Len(values)
          => /\ ret'.res.lag >= 0
             /\ ret'.res.lag = Len(After(values, groups[name].last_delivered_key))]_vars

\* The sum of the pending counts of a group's consumers.
RECURSIVE SumPending(_, _)
SumPending(consumers, names) ==
    IF names = {} THEN 0
    ELSE LET c == CHOOSE x \in names : TRUE
         IN  consumers[c].pending + SumPending(consumers, names \ {c})

TotalPending(group) == SumPending(group.consumers, DOMAIN group.consumers)

\* The pending counts of the group add up to the size of its PEL.
Balanced(group) == TotalPending(group) = Cardinality(group.pel)

\* C18: in a group that no consumer is removed from and that is read with
\* noack=False only, the pending counts of the consumers add up to the number
\* of keys in the PEL after any sequence of adds, group reads and set_id
\* calls: the sums agree when the group is created, and no call other than a
\* read with noack=True makes them differ.  A read with noack=True leaves the
\* PEL as it is.
C18_PendingMatchesPel ==
    [][\A name \in DOMAIN groups \cap DOMAIN groups' :
          IF ret'.op = "group_read" /\ ret'.noack
          THEN groups'[name].pel = groups[name].pel
          ELSE Balanced(groups[name]) => Balanced(groups'[name])]_vars

\* C20: set_id completes without raising in every reachable state of the
\* stream, the empty stream included, and afterwards last_delivered_key is
\* the key of the stored entry at index
\* min(start_index + entries_read, len - 1), where start_index is the number
\* of stored entries with a key below the start key and entries_read counts
\* as 0 when it is None.
C20_SetIdCompletes ==
    [][\A name \in GroupNames, last_delivered_str \in SetIdStrs,
          entries_read \in SetIdEntriesRead :
          SetId(name, last_delivered_str, entries_read)
          => LET start_key == IF last_delivered_str = Dollar
                              THEN StreamEntryKey(0, 0)
                              ELSE parse_str(last_delivered_str)
                 start_index == Len(SelectSeq(values,
                                              LAMBDA e : KeyLess(e.key, start_key)))
                 i == Min(start_index + OrZero(entries_read), Len(values) - 1)
             IN  /\ ~ret'.raised
                 /\ groups'[name].last_delivered_key = values[i + 1].key]_vars

(***************************************************************************)
(* Properties of the stream with two consumer groups (SpecTwo)             *)
(***************************************************************************)
\* C19: a group_read, set_id, add_consumer or del_consumer on one group
\* leaves the stored entries, entries_added, max_deleted_id and the whole
\* state of every other group as they were, so what the next read of new
\* entries by another group returns does not depend on it.
C19_GroupsIndependent ==
    [][ret'.op \in {"group_read", "set_id", "add_consumer", "del_consumer"}
          => /\ values' = values
             /\ entries_added' = entries_added
             /\ max_deleted_id' = max_deleted_id
             /\ DOMAIN groups' = DOMAIN groups
             /\ \A b \in DOMAIN groups \ {ret'.name} :
                   /\ groups'[b] = groups[b]
                   /\ \A count \in Counts :
                         stream_read(values', groups'[b].last_delivered_key, count)
                            = stream_read(values, groups[b].last_delivered_key, count)]_vars

\* g1 has read an entry of a stream of two while g2, created at 0-0, still
\* has its cursor there and nothing delivered.
C19_Witness ==
    /\ ret.op = "group_read" /\ ret.name = "g1"
    /\ Len(ret.res) > 0
    /\ Len(values) = 2
    /\ DOMAIN groups = {"g1", "g2"}
    /\ KeyLess(StreamEntryKey(0, 0), groups["g1"].last_delivered_key)
    /\ groups["g2"].last_delivered_key = StreamEntryKey(0, 0)
    /\ groups["g2"].entries_read = None
    /\ groups["g2"].pel = {}

====
